---- MODULE Spec2Model ----
(***************************************************************************)
(* Model of the expense ledger and query engine of expense_tracker.py:     *)
(* class Expense and class ExpenseTracker (persistence, filtering,         *)
(* aggregation, budget check, recurring-expense date computation).         *)
(*                                                                         *)
(* Representation                                                          *)
(*   text            a sequence of one-character strings (Python str), so  *)
(*                   that lower(), `in` and the lexicographic <= of str    *)
(*                   are computed character by character                   *)
(*   None / value    the empty set / a one-element set {v}                 *)
(*   datetime        a record [year, month, day]                           *)
(*   Expense object  a record with the six attributes of Expense.__init__  *)
(*   a file          [exists, data]; data is the JSON value json.dump wrote *)
(*   amounts         integers (the arithmetic used is + and comparison)    *)
(*   spent           the sum check_budget compared, None when it summed    *)
(*                   nothing                                               *)
(*   pc              where the running operation is; "idle" between two    *)
(*                   operations                                            *)
(***************************************************************************)
EXTENDS Integers, Sequences, FiniteSets, TLC

VARIABLES expenses, budgets, expFile, budFile, today, alert, error, last, spent, pc

vars == <<expenses, budgets, expFile, budFile, today, alert, error, last, spent, pc>>

\* ------------------------------------------------------------------ bounds

\* longest ledger a session of Spec grows
MaxLen == 3
\* largest amount / budget ceiling entered
MaxAmount == 2
\* longest ledger the query specifications start from
MaxQueryLen == 3

\* recurring expenses added in a behaviour of SpecRecurring
MaxRecurring == 1
\* largest day-of-month entered in SpecRecurring (the smallest is -1)
MaxDay == 32

\* ------------------------------------------------------------ None / value

None == {}

Some(v) == {v}

Value(opt) == CHOOSE v \in opt : TRUE

\* ------------------------------------------------------------------- text

Digits == <<"0", "1", "2", "3", "4", "5", "6", "7", "8", "9">>

\* code point order of the characters that occur (str comparison)
Ord(c) ==
  CASE c = "-" -> 45
    [] c \in {Digits[i] : i \in 1..10} -> 47 + (CHOOSE i \in 1..10 : Digits[i] = c)
    [] c = "D" -> 68 [] c = "F" -> 70 [] c = "O" -> 79 [] c = "R" -> 82
    [] c = "a" -> 97 [] c = "b" -> 98 [] c = "d" -> 100 [] c = "e" -> 101
    [] c = "f" -> 102 [] c = "n" -> 110 [] c = "o" -> 111 [] c = "r" -> 114
    [] c = "t" -> 116

\* str.lower() on one character
LowerChar(c) ==
  CASE c = "D" -> "d" [] c = "F" -> "f" [] c = "O" -> "o" [] c = "R" -> "r"
    [] OTHER -> c

\* str.lower()
lower(s) == [i \in 1..Len(s) |-> LowerChar(s[i])]

\* Python's `sub in s` on str
contains(s, sub) ==
  \E i \in 0..(Len(s) - Len(sub)) : SubSeq(s, i + 1, i + Len(sub)) = sub

RECURSIVE str_le(_, _)
\* Python's a <= b on str: lexicographic by code point, a prefix is smaller
str_le(a, b) ==
  IF a = <<>> THEN TRUE
  ELSE IF b = <<>> THEN FALSE
  ELSE IF Ord(Head(a)) < Ord(Head(b)) THEN TRUE
  ELSE IF Ord(Head(a)) > Ord(Head(b)) THEN FALSE
  ELSE str_le(Tail(a), Tail(b))

\* ------------------------------------------------------------------ dates

IsLeap(y) == (y % 4 = 0 /\ y % 100 # 0) \/ y % 400 = 0

\* days of a month, as datetime.replace checks them
DaysInMonth(y, m) ==
  IF m = 2 THEN (IF IsLeap(y) THEN 29 ELSE 28)
  ELSE IF m \in {4, 6, 9, 11} THEN 30 ELSE 31

Pad(n, width) ==
  [i \in 1..width |-> Digits[((n \div (10 ^ (width - i))) % 10) + 1]]

\* datetime.strftime("%Y-%m-%d")
strftime(d) == Pad(d.year, 4) \o <<"-">> \o Pad(d.month, 2) \o <<"-">> \o Pad(d.day, 2)

DigitVal(c) == (CHOOSE i \in 1..10 : Digits[i] = c) - 1

RECURSIVE ParseInt(_)
ParseInt(s) ==
  IF s = <<>> THEN 0 ELSE 10 * ParseInt(SubSeq(s, 1, Len(s) - 1)) + DigitVal(s[Len(s)])

\* datetime.strptime(s, "%Y-%m-%d") on the strings strftime writes
strptime(s) ==
  [year |-> ParseInt(SubSeq(s, 1, 4)), month |-> ParseInt(SubSeq(s, 6, 7)),
   day |-> ParseInt(SubSeq(s, 9, 10))]

Date(y, m, d) == [year |-> y, month |-> m, day |-> d]

\* --------------------------------------------------------- class Expense

TruthyText(opt) == opt # None /\ Value(opt) # <<>>

TruthyInt(opt) == opt # None /\ Value(opt) # 0

TruthyStr(opt) == opt # None /\ Value(opt) # ""

\* Expense.__init__; date is None or a text, now is datetime.now()
Expense(amount, category, description, date, payment_method, currency, now) ==
  [amount |-> amount, category |-> category, description |-> description,
   date |-> IF TruthyText(date) THEN Value(date) ELSE strftime(now),
   payment_method |-> payment_method, currency |-> currency]

\* to_dict with the "currency" key forgotten
to_dict_without_currency(e) ==
  [amount |-> e.amount, category |-> e.category, description |-> e.description,
   date |-> e.date, payment_method |-> e.payment_method]

\* Expense.to_dict: the JSON object written for one record
to_dict(e) ==
  [amount |-> e.amount, category |-> e.category, description |-> e.description,
   date |-> e.date, payment_method |-> e.payment_method, currency |-> e.currency]

\* Expense(**e): keyword arguments by key, the defaults for the keys absent
ExpenseFromDict(d, now) ==
  Expense(d.amount, d.category, d.description,
          IF "date" \in DOMAIN d THEN Some(d.date) ELSE None,
          IF "payment_method" \in DOMAIN d THEN d.payment_method ELSE "Cash",
          IF "currency" \in DOMAIN d THEN d.currency ELSE "INR",
          now)

\* ------------------------------------------------- ExpenseTracker, pure part

NoFile == [exists |-> FALSE, data |-> <<>>]

\* save_expenses: the file after open(filename, "w") and json.dump
save_expenses(exps) ==
  [exists |-> TRUE, data |-> [i \in 1..Len(exps) |-> to_dict(exps[i])]]

\* load_expenses: self.expenses afterwards (left as it was when no file exists)
load_expenses(current, file, now) ==
  IF file.exists
  THEN [i \in 1..Len(file.data) |-> ExpenseFromDict(file.data[i], now)]
  ELSE current

\* save_budgets: the file after json.dump(self.budgets)
save_budgets(buds) == [exists |-> TRUE, data |-> buds]

\* load_budgets: self.budgets afterwards
load_budgets(current, file) == IF file.exists THEN file.data ELSE current

\* filter_expenses: four list comprehensions, each behind `if <argument>:`
filter_expenses(exps, year, month, category, payment_method) ==
  LET f1 == IF TruthyInt(year)
            THEN SelectSeq(exps, LAMBDA e : strptime(e.date).year = Value(year))
            ELSE exps
      f2 == IF TruthyInt(month)
            THEN SelectSeq(f1, LAMBDA e : strptime(e.date).month = Value(month))
            ELSE f1
      f3 == IF TruthyText(category)
            THEN SelectSeq(f2, LAMBDA e : e.category = Value(category))
            ELSE f2
      f4 == IF TruthyStr(payment_method)
            THEN SelectSeq(f3, LAMBDA e : e.payment_method = Value(payment_method))
            ELSE f3
  IN f4

RECURSIVE sum_amounts(_)
\* sum(exp.amount for exp in ...)
sum_amounts(exps) ==
  IF exps = <<>> THEN 0 ELSE exps[1].amount + sum_amounts(Tail(exps))

\* check_budget, line 112: the sum compared with the ceiling, None when the
\* category has no ceiling and nothing is summed
budget_spent(exps, buds, expense, now) ==
  LET category == expense.category IN
  IF category \in DOMAIN buds
  THEN Some(sum_amounts(filter_expenses(exps, None, Some(now.month), Some(category), None)))
  ELSE None

\* check_budget: TRUE when messagebox.showwarning("Budget Alert") is shown
check_budget(exps, buds, expense, now) ==
  LET category == expense.category IN
  /\ category \in DOMAIN buds
  /\ sum_amounts(filter_expenses(exps, None, Some(now.month), Some(category), None))
       > buds[category]

\* replace that accepts every day number
replace_unchecked(year, month, day) == Some(Date(year, month, day))

\* datetime.replace(year, month, day): None when it raises ValueError
replace(year, month, day) ==
  IF day >= 1 /\ day <= DaysInMonth(year, month)
  THEN Some(Date(year, month, day)) ELSE None

\* target_date with today.day < day_of_month as the test
target_date_strict(now, day_of_month) ==
  IF now.day < day_of_month
  THEN replace(now.year, now.month, day_of_month)
  ELSE LET next_month == (now.month % 12) + 1
           next_year == now.year + (IF next_month = 1 THEN 1 ELSE 0)
       IN replace(next_year, next_month, day_of_month)

\* add_recurring_expense, lines 118-124: target_date, None when replace raises
target_date(now, day_of_month) ==
  IF now.day <= day_of_month
  THEN replace(now.year, now.month, day_of_month)
  ELSE LET next_month == (now.month % 12) + 1
           next_year == now.year + (IF next_month = 1 THEN 1 ELSE 0)
       IN replace(next_year, next_month, day_of_month)

RECURSIVE summarize(_, _)
\* the loop of get_summary: summary[exp.category] = summary.get(exp.category, 0) + exp.amount
summarize(exps, summary) ==
  IF exps = <<>> THEN summary
  ELSE LET exp == Head(exps)
           old == IF exp.category \in DOMAIN summary THEN summary[exp.category] ELSE 0
       IN summarize(Tail(exps),
                    [c \in (DOMAIN summary) \cup {exp.category} |->
                       IF c = exp.category THEN old + exp.amount ELSE summary[c]])

RECURSIVE summarize_overwriting(_, _)
\* the loop of get_summary with summary[exp.category] = exp.amount
summarize_overwriting(exps, summary) ==
  IF exps = <<>> THEN summary
  ELSE LET exp == Head(exps)
       IN summarize_overwriting(Tail(exps),
                    [c \in (DOMAIN summary) \cup {exp.category} |->
                       IF c = exp.category THEN exp.amount ELSE summary[c]])

\* get_summary without the accumulation
get_summary_overwriting(exps, year, month) ==
  summarize_overwriting(filter_expenses(exps, year, month, None, None), <<>>)

\* get_summary: filter_expenses(year, month), then the total per category
get_summary(exps, year, month) ==
  summarize(filter_expenses(exps, year, month, None, None), <<>>)

\* search_expenses with the keyword compared as typed
search_expenses_keyword_as_typed(exps, keyword) ==
  SelectSeq(exps, LAMBDA exp :
    \/ contains(lower(exp.description), keyword)
    \/ contains(lower(exp.category), keyword))

\* search_expenses: keyword.lower() in description.lower() or in category.lower()
search_expenses(exps, keyword) ==
  SelectSeq(exps, LAMBDA exp :
    \/ contains(lower(exp.description), lower(keyword))
    \/ contains(lower(exp.category), lower(keyword)))

\* filter_by_date_range with exp.date < end_date
filter_by_date_range_open_end(exps, start_date, end_date) ==
  SelectSeq(exps, LAMBDA exp :
    str_le(start_date, exp.date) /\ str_le(exp.date, end_date) /\ exp.date # end_date)

\* filter_by_date_range: start_date <= exp.date <= end_date on str
filter_by_date_range(exps, start_date, end_date) ==
  SelectSeq(exps, LAMBDA exp : str_le(start_date, exp.date) /\ str_le(exp.date, end_date))

\* what requests.get(url) and response.json() give: the request raises, the
\* body is not JSON, or the body is a JSON object
NetworkError == [kind |-> "network_error"]

NotJson == [kind |-> "not_json"]

Json(body) == [kind |-> "json", body |-> body]

Returned(result, called, reported) ==
  [result |-> result, called |-> called, reported |-> reported]

\* the try block of convert_currency: None when one of its lines raises
rate_lookup(amount, to_currency, response) ==
  IF response.kind # "json" THEN None
  ELSE IF "rates" \notin DOMAIN response.body THEN None
  ELSE IF to_currency \notin DOMAIN response.body.rates THEN None
  ELSE Some(amount * response.body.rates[to_currency])

\* convert_currency without `if from_currency == to_currency: return amount`
convert_currency_always_asking(amount, from_currency, to_currency, response) ==
  LET converted == rate_lookup(amount, to_currency, response) IN
  Returned(converted, TRUE, converted = None)

\* convert_currency with `return amount` and no message in the except block
convert_currency_passing_through(amount, from_currency, to_currency, response) ==
  IF from_currency = to_currency THEN Returned(Some(amount), FALSE, FALSE)
  ELSE LET converted == rate_lookup(amount, to_currency, response) IN
       IF converted = None THEN Returned(Some(amount), TRUE, FALSE)
       ELSE Returned(converted, TRUE, FALSE)

\* convert_currency: the value returned (None for Python's None), whether
\* requests.get was called, whether messagebox.showerror was shown; response
\* is what the rate service answers when it is asked
convert_currency(amount, from_currency, to_currency, response) ==
  IF from_currency = to_currency THEN Returned(Some(amount), FALSE, FALSE)
  ELSE LET converted == rate_lookup(amount, to_currency, response) IN
       Returned(converted, TRUE, converted = None)

\* ------------------------------------------- ExpenseTracker, the operations

\* add_expense with check_budget called before the append
add_expense_checking_first(expense) ==
  LET exps == Append(expenses, expense) IN
  /\ expenses' = exps
  /\ expFile' = save_expenses(exps)
  /\ alert' = check_budget(expenses, budgets, expense, today)
  /\ spent' = budget_spent(expenses, budgets, expense, today)
  /\ error' = FALSE
  /\ UNCHANGED <<budgets, budFile>>

\* add_expense: append, save_expenses, check_budget
add_expense(expense) ==
  LET exps == Append(expenses, expense) IN
  /\ expenses' = exps
  /\ expFile' = save_expenses(exps)
  /\ alert' = check_budget(exps, budgets, expense, today)
  /\ spent' = budget_spent(exps, budgets, expense, today)
  /\ error' = FALSE
  /\ UNCHANGED <<budgets, budFile>>

\* delete_expense comparing date, category and amount only
delete_expense_three_fields(date, category, amount, description) ==
  LET exps == SelectSeq(expenses,
                LAMBDA exp : ~(/\ exp.date = date
                               /\ exp.category = category
                               /\ exp.amount = amount))
  IN
  /\ expenses' = exps
  /\ expFile' = save_expenses(exps)
  /\ alert' = FALSE
  /\ spent' = None
  /\ error' = FALSE
  /\ UNCHANGED <<budgets, budFile>>

\* delete_expense: keep the records that differ in one of the four fields, save
delete_expense(date, category, amount, description) ==
  LET exps == SelectSeq(expenses,
                LAMBDA exp : ~(/\ exp.date = date
                               /\ exp.category = category
                               /\ exp.amount = amount
                               /\ exp.description = description))
  IN
  /\ expenses' = exps
  /\ expFile' = save_expenses(exps)
  /\ alert' = FALSE
  /\ spent' = None
  /\ error' = FALSE
  /\ UNCHANGED <<budgets, budFile>>

\* set_budget without the call of save_budgets
set_budget_unsaved(category, amount) ==
  LET buds == [c \in (DOMAIN budgets) \cup {category} |->
                 IF c = category THEN amount ELSE budgets[c]]
  IN
  /\ budgets' = buds
  /\ alert' = FALSE
  /\ spent' = None
  /\ error' = FALSE
  /\ UNCHANGED <<expenses, expFile, budFile>>

\* set_budget: self.budgets[category] = amount, save_budgets
set_budget(category, amount) ==
  LET buds == [c \in (DOMAIN budgets) \cup {category} |->
                 IF c = category THEN amount ELSE budgets[c]]
  IN
  /\ budgets' = buds
  /\ budFile' = save_budgets(buds)
  /\ alert' = FALSE
  /\ spent' = None
  /\ error' = FALSE
  /\ UNCHANGED <<expenses, expFile>>

\* add_recurring_expense: ValueError out of replace leaves the tracker as it was
add_recurring_expense(amount, category, description, day_of_month) ==
  LET target == target_date(today, day_of_month) IN
  IF target = None
  THEN /\ error' = TRUE
       /\ alert' = FALSE
       /\ spent' = None
       /\ UNCHANGED <<expenses, expFile, budgets, budFile>>
  ELSE add_expense(Expense(amount, category, description,
                           Some(strftime(Value(target))), "Cash", "INR", today))

\* ExpenseTracker.__init__: a session starts and loads both files
tracker_init ==
  /\ expenses' = load_expenses(<<>>, expFile, today)
  /\ budgets' = load_budgets(<<>>, budFile)
  /\ alert' = FALSE
  /\ spent' = None
  /\ error' = FALSE
  /\ UNCHANGED <<expFile, budFile>>

\* ------------------------------------------------------ inputs of a session

Food == <<"F", "o", "o", "d">>

Rent == <<"R", "e", "n", "t">>

Amounts == 1..MaxAmount

BaseInput ==
  [amount |-> 1, category |-> Food, description |-> <<"a">>,
   payment_method |-> "Cash", currency |-> "INR"]

\* what the add form is filled with: BaseInput, and a variation of it in each of
\* amount, category and description (the last one with the other payment method
\* and currency)
Inputs ==
  {BaseInput,
   [BaseInput EXCEPT !.amount = MaxAmount],
   [BaseInput EXCEPT !.category = Rent],
   [BaseInput EXCEPT !.description = <<"b">>, !.payment_method = "UPI", !.currency = "USD"]}

\* the days on which the session's operations happen
ClockDates == {Date(2023, 12, 10), Date(2024, 12, 10)}

Before(a, b) ==
  \/ a.year < b.year
  \/ a.year = b.year /\ a.month < b.month
  \/ a.year = b.year /\ a.month = b.month /\ a.day < b.day

\* day-of-month values entered for a recurring expense in Spec
RecurringDays == {5, 0}

\* ------------------------------------------------------------- the session

Did(op, args) == [op |-> op, args |-> args, pre |-> expenses]

\* a new user: no file of either kind, the tracker constructed on ClockDates' first day
Init ==
  /\ expenses = <<>>
  /\ budgets = <<>>
  /\ expFile = NoFile
  /\ budFile = NoFile
  /\ today = Date(2023, 12, 10)
  /\ alert = FALSE
  /\ spent = None
  /\ pc = "idle"
  /\ error = FALSE
  /\ last = [op |-> "init", args |-> <<>>, pre |-> <<>>]

\* ExpenseApp.add_expense: Expense(...) without a date, tracker.add_expense
AddExpense(inputs, dates) ==
  \E i \in inputs, d \in dates :
    /\ Len(expenses) < MaxLen
    /\ add_expense(Expense(i.amount, i.category, i.description, d,
                           i.payment_method, i.currency, today))
    /\ last' = Did("add", [date |-> d])
    /\ UNCHANGED <<today, pc>>

\* ExpenseApp.delete_selected_expense: tracker.delete_expense with four values
DeleteExpense(targets) ==
  \E t \in targets :
    /\ delete_expense(t.date, t.category, t.amount, t.description)
    /\ last' = Did("delete", t)
    /\ UNCHANGED <<today, pc>>

\* ExpenseApp.set_budget: tracker.set_budget
SetBudget(categories, amounts) ==
  \E c \in categories, a \in amounts :
    /\ set_budget(c, a)
    /\ last' = Did("set_budget", [category |-> c, amount |-> a])
    /\ UNCHANGED <<today, pc>>

\* ExpenseApp.add_recurring_expense: tracker.add_recurring_expense
AddRecurringExpense(amounts, categories, descriptions, days) ==
  \E a \in amounts, c \in categories, t \in descriptions, day \in days :
    /\ Len(expenses) < MaxLen
    /\ add_recurring_expense(a, c, t, day)
    /\ last' = Did("recurring", [amount |-> a, category |-> c, description |-> t,
                                 day_of_month |-> day])
    /\ UNCHANGED <<today, pc>>

\* the program is started again: ExpenseTracker(username) loads the files
NewSession ==
  /\ tracker_init
  /\ last' = Did("load", [after |-> last.op])
  /\ UNCHANGED <<today, pc>>

\* time passes
Tick(dates) ==
  \E d \in dates :
    /\ Before(today, d)
    /\ today' = d
    /\ last' = Did("tick", <<>>)
    /\ alert' = FALSE
    /\ spent' = None
    /\ error' = FALSE
    /\ UNCHANGED <<expenses, budgets, expFile, budFile, pc>>

Key(e) ==
  [date |-> e.date, category |-> e.category, amount |-> e.amount,
   description |-> e.description]

\* the rows that can be selected for deletion, and the row just deleted once more
Rows == {Key(expenses[i]) : i \in 1..Len(expenses)}
          \cup (IF last.op = "delete" THEN {last.args} ELSE {})

Next ==
  \/ AddExpense(Inputs, {None})
  \/ DeleteExpense(Rows)
  \/ SetBudget({Food}, Amounts)
  \/ AddRecurringExpense({1}, {Food}, {<<"a">>}, RecurringDays)
  \/ NewSession
  \/ Tick(ClockDates)

Spec == Init /\ [][Next]_vars

\* ------------------------------------------- recurring expenses on any day

\* the days of month on which SpecRecurring's session takes place
TodayDays == {1, 3, 10, 28, 29, 30, 31}

\* 2023 and the leap year 2024
Todays ==
  {t \in {Date(y, m, d) : y \in {2023, 2024}, m \in 1..12, d \in TodayDays} :
     t.day <= DaysInMonth(t.year, t.month)}

\* a ledger a former session left in the file
FormerLedger ==
  <<Expense(2, Rent, <<"b">>, Some(strftime(Date(2023, 1, 1))), "UPI", "USD",
            Date(2023, 1, 1))>>

\* a session on any day, on a new ledger or on the one a former session saved
InitRecurring ==
  /\ today \in Todays
  /\ \/ expenses = <<>> /\ expFile = NoFile
     \/ expenses = FormerLedger /\ expFile = save_expenses(FormerLedger)
  /\ budgets = <<>>
  /\ budFile = NoFile
  /\ alert = FALSE
  /\ spent = None
  /\ pc = "idle"
  /\ error = FALSE
  /\ last = [op |-> "init", args |-> <<>>, pre |-> <<>>]

\* the records the recurring form of this session added (it describes them "r")
Recurring == {i \in 1..Len(expenses) : expenses[i].description = <<"r">>}

NextRecurring ==
  /\ Cardinality(Recurring) < MaxRecurring
  /\ AddRecurringExpense({1}, {Rent}, {<<"r">>}, -1..MaxDay)

SpecRecurring == InitRecurring /\ [][NextRecurring]_vars

\* -------------------------------------------------- queries on any ledger

Asked(op, args, result) == [op |-> op, args |-> args, pre |-> expenses, result |-> result]

QueryRecord(amount, category, description, date, payment_method) ==
  Expense(amount, category, description, Some(strftime(date)), payment_method, "INR", date)

\* the records the ledgers of SpecQuery are made of
QueryRecords ==
  {QueryRecord(10, Food, <<"a">>, Date(2024, 12, 10), "Cash"),
   QueryRecord(20, Food, <<"b">>, Date(2024, 12, 10), "UPI"),
   QueryRecord(5, Rent, <<"a">>, Date(2024, 12, 9), "Cash"),
   QueryRecord(10, Food, <<"a">>, Date(2023, 12, 10), "Cash"),
   QueryRecord(5, Rent, <<"F", "O", "o">>, Date(2024, 1, 5), "UPI"),
   QueryRecord(20, <<"f", "o", "o", "d">>, <<"b">>, Date(2024, 1, 5), "Cash")}

Ledgers == UNION {[1..n -> QueryRecords] : n \in 0..MaxQueryLen}

Keywords == {<<>>, <<"f", "o", "o">>, <<"F", "O", "O">>, <<"o", "d">>, <<"b">>, <<"a">>}

RangeDates ==
  {strftime(d) : d \in {Date(2023, 12, 10), Date(2024, 1, 5), Date(2024, 12, 9),
                        Date(2024, 12, 10)}}

Years == {None, Some(0), Some(2023), Some(2024)}

Months == {None, Some(1), Some(12)}

CategoryArgs == {None, Some(Food), Some(Rent)}

PaymentArgs == {None, Some(""), Some("UPI")}

\* a session on a ledger that former sessions saved
InitQuery ==
  /\ expenses \in Ledgers
  /\ expFile = (IF expenses = <<>> THEN NoFile ELSE save_expenses(expenses))
  /\ budgets = <<>>
  /\ budFile = NoFile
  /\ today = Date(2024, 12, 10)
  /\ alert = FALSE
  /\ spent = None
  /\ pc = "idle"
  /\ error = FALSE
  /\ last = [op |-> "init", args |-> <<>>, pre |-> <<>>]

\* a query changes nothing of the tracker, so the behaviours after it are those
\* before it: each behaviour of SpecQuery asks one query
Unchanged ==
  /\ last.op = "init"
  /\ UNCHANGED <<expenses, budgets, expFile, budFile, today, alert, error, spent, pc>>

\* get_summary(year, month)
GetSummary(years, months) ==
  \E y \in years, m \in months :
    /\ Unchanged
    /\ last' = Asked("summary", [year |-> y, month |-> m], get_summary(expenses, y, m))

\* search_expenses(keyword)
SearchExpenses(keywords) ==
  \E k \in keywords :
    /\ Unchanged
    /\ last' = Asked("search", [keyword |-> k], search_expenses(expenses, k))

\* filter_by_date_range(start_date, end_date)
FilterByDateRange(dates) ==
  \E a \in dates, b \in dates :
    /\ Unchanged
    /\ last' = Asked("range", [start_date |-> a, end_date |-> b],
                     filter_by_date_range(expenses, a, b))

\* filter_expenses(year, month, category, payment_method)
FilterExpenses(years, months, categories, payment_methods) ==
  \E y \in years, m \in months, c \in categories, p \in payment_methods :
    /\ Unchanged
    /\ last' = Asked("filter", [year |-> y, month |-> m, category |-> c,
                                payment_method |-> p],
                     filter_expenses(expenses, y, m, c, p))

NextQuery ==
  \/ GetSummary(Years, Months)
  \/ SearchExpenses(Keywords)
  \/ FilterByDateRange(RangeDates)
  \/ FilterExpenses(Years, Months, CategoryArgs, PaymentArgs)

SpecQuery == InitQuery /\ [][NextQuery]_vars

\* ------------------------------------------- adds dated in and out of the month

\* the add form filled with one category that gets a ceiling and one that does not
BudgetInputs ==
  {BaseInput, [BaseInput EXCEPT !.amount = MaxAmount], [BaseInput EXCEPT !.category = Rent]}

\* Expense(..., date=...): no date, a day of today's first month, a day before it
GivenDates ==
  {None, Some(strftime(Date(2023, 12, 25))), Some(strftime(Date(2023, 11, 30)))}

NextBudget ==
  \/ AddExpense(BudgetInputs, GivenDates)
  \/ SetBudget({Food}, Amounts)
  \/ AddRecurringExpense({1}, {Food}, {<<"a">>}, {5, 15})
  \/ Tick(ClockDates)

SpecBudget == Init /\ [][NextBudget]_vars

\* ------------------------------------- the steps of add, delete and a save

\* the file between open(self.filename, "w") and the end of the with block: the
\* old content is gone and `written` records of the new content are on disk
Truncated(written) == [exists |-> TRUE, data |-> written, torn |-> TRUE]

\* json.load raises on the content
Torn(file) == "torn" \in DOMAIN file

StepInputs == {BaseInput, [BaseInput EXCEPT !.amount = MaxAmount]}

\* add_expense, line 50: self.expenses.append(expense)
BeginAdd(inputs) ==
  \E i \in inputs :
    /\ pc = "idle"
    /\ Len(expenses) < MaxLen
    /\ expenses' = Append(expenses, Expense(i.amount, i.category, i.description, None,
                                            i.payment_method, i.currency, today))
    /\ pc' = "add_appended"
    /\ last' = Did("add", [date |-> None])
    /\ alert' = FALSE
    /\ spent' = None
    /\ error' = FALSE
    /\ UNCHANGED <<budgets, expFile, budFile, today>>

\* delete_expense, lines 81-90: self.expenses = [the records that do not match]
BeginDelete(targets) ==
  \E t \in targets :
    /\ pc = "idle"
    /\ expenses' = SelectSeq(expenses,
                     LAMBDA exp : ~(/\ exp.date = t.date
                                    /\ exp.category = t.category
                                    /\ exp.amount = t.amount
                                    /\ exp.description = t.description))
    /\ pc' = "delete_assigned"
    /\ last' = Did("delete", t)
    /\ alert' = FALSE
    /\ spent' = None
    /\ error' = FALSE
    /\ UNCHANGED <<budgets, expFile, budFile, today>>

\* save_expenses, line 55: open(self.filename, "w") empties the file
OpenForWriting ==
  /\ pc \in {"add_appended", "delete_assigned"}
  /\ expFile' = Truncated(<<>>)
  /\ pc' = (IF pc = "add_appended" THEN "add_writing" ELSE "delete_writing")
  /\ UNCHANGED <<expenses, budgets, budFile, today, alert, error, last, spent>>

\* save_expenses, line 56: json.dump fills the buffer, which may reach the disk
\* in part before the file is closed
FlushPart ==
  \E n \in 1..(Len(expenses) - 1) :
    /\ pc \in {"add_writing", "delete_writing"}
    /\ n > Len(expFile.data)
    /\ expFile' = Truncated([i \in 1..n |-> to_dict(expenses[i])])
    /\ UNCHANGED <<expenses, budgets, budFile, today, alert, error, last, spent, pc>>

\* save_expenses, end of the with block: all of json.dump's output is in the file
CloseFile ==
  /\ pc \in {"add_writing", "delete_writing"}
  /\ expFile' = save_expenses(expenses)
  /\ pc' = (IF pc = "add_writing" THEN "add_saved" ELSE "idle")
  /\ UNCHANGED <<expenses, budgets, budFile, today, alert, error, last, spent>>

\* the check of the budget that shows the alert and then takes the record back
CheckBudgetBlocking ==
  /\ pc = "add_saved"
  /\ alert' = check_budget(expenses, budgets, expenses[Len(expenses)], today)
  /\ spent' = budget_spent(expenses, budgets, expenses[Len(expenses)], today)
  /\ expenses' = (IF alert' THEN last.pre ELSE expenses)
  /\ pc' = (IF alert' THEN "add_alerting" ELSE "idle")
  /\ UNCHANGED <<budgets, expFile, budFile, today, error, last>>

\* add_expense, line 52: check_budget(expense); the warning is a modal dialog
CheckBudget ==
  /\ pc = "add_saved"
  /\ alert' = check_budget(expenses, budgets, expenses[Len(expenses)], today)
  /\ spent' = budget_spent(expenses, budgets, expenses[Len(expenses)], today)
  /\ pc' = (IF alert' THEN "add_alerting" ELSE "idle")
  /\ UNCHANGED <<expenses, budgets, expFile, budFile, today, error, last>>

\* messagebox.showwarning returns: check_budget and add_expense return
DismissAlert ==
  /\ pc = "add_alerting"
  /\ pc' = "idle"
  /\ UNCHANGED <<expenses, budgets, expFile, budFile, today, alert, error, last, spent>>

\* set_budget between two operations
IdleSetBudget == pc = "idle" /\ SetBudget({Food}, Amounts)

\* the process dies: what it held in memory is gone, the files stay as they are
Crash ==
  /\ pc # "crashed"
  /\ last.op # "crash"
  /\ pc' = "crashed"
  /\ last' = [op |-> "crash", args |-> [during |-> pc],
              pre |-> (IF pc = "idle" THEN expenses ELSE last.pre), new |-> expenses]
  /\ expenses' = <<>>
  /\ budgets' = <<>>
  /\ alert' = FALSE
  /\ spent' = None
  /\ error' = FALSE
  /\ UNCHANGED <<expFile, budFile, today>>

\* the program is started after a crash: json.load at line 61 raises on a torn
\* file and the program ends; otherwise the tracker is constructed
Restart ==
  /\ pc = "crashed"
  /\ IF Torn(expFile)
     THEN /\ error' = TRUE
          /\ pc' = "crashed"
          /\ last' = [last EXCEPT !.op = "load_failed"]
          /\ UNCHANGED <<expenses, budgets, expFile, budFile, today, alert, spent>>
     ELSE /\ tracker_init
          /\ pc' = "idle"
          /\ last' = [op |-> "load", args |-> [after |-> "crash"], pre |-> last.new]
          /\ UNCHANGED today

NextSteps ==
  \/ BeginAdd(StepInputs)
  \/ BeginDelete(Rows)
  \/ OpenForWriting
  \/ FlushPart
  \/ CloseFile
  \/ CheckBudget
  \/ DismissAlert
  \/ IdleSetBudget
  \/ Crash
  \/ Restart

SpecSteps == Init /\ [][NextSteps]_vars

\* ------------------------------------------------------ currency conversion

Currencies == {"INR", "USD", "EUR"}

ConvertAmounts == (-1..MaxAmount) \cup {100}

\* the answers of the rate service: failures, a body without "rates", and rates
\* that lack a currency or give all three
Responses ==
  {NetworkError, NotJson, Json([result |-> "error"])}
    \cup {Json([rates |-> r]) :
            r \in {[c \in {"INR"} |-> 83], [c \in {"USD", "EUR"} |-> 2],
                   [c \in Currencies |-> IF c = "INR" THEN 83 ELSE 1],
                   [c \in Currencies |-> 0], <<>>}}

\* a session on a new ledger or a saved one, with or without a saved budget
InitConvert ==
  /\ today = Date(2024, 12, 10)
  /\ \/ expenses = <<>> /\ expFile = NoFile
     \/ expenses = FormerLedger /\ expFile = save_expenses(FormerLedger)
  /\ \/ budgets = <<>> /\ budFile = NoFile
     \/ budgets = [c \in {Rent} |-> 2] /\ budFile = save_budgets([c \in {Rent} |-> 2])
  /\ alert = FALSE
  /\ spent = None
  /\ pc = "idle"
  /\ error = FALSE
  /\ last = [op |-> "init", args |-> <<>>, pre |-> <<>>]

\* convert_currency(amount, from_currency, to_currency), the service answering r
ConvertCurrency(amounts, currencies, responses) ==
  \E a \in amounts, f \in currencies, t \in currencies, r \in responses :
    /\ Unchanged
    /\ last' = Asked("convert",
                     [amount |-> a, from_currency |-> f, to_currency |-> t, response |-> r],
                     convert_currency(a, f, t, r))

NextConvert == ConvertCurrency(ConvertAmounts, Currencies, Responses)

SpecConvert == InitConvert /\ [][NextConvert]_vars

\* ------------------------------------------------ vocabulary of the claims

Fields == {"amount", "category", "description", "date", "payment_method", "currency"}

\* the records of seq at the indices in I, in increasing index order
AtIndices(seq, I) ==
  [k \in 1..Cardinality(I) |->
     seq[CHOOSE i \in I : Cardinality({j \in I : j <= i}) = k]]

RECURSIVE TotalAt(_, _)
\* the sum of the amounts of seq at the indices in I, each index once
TotalAt(seq, I) ==
  IF I = {} THEN 0
  ELSE LET i == CHOOSE j \in I : TRUE IN seq[i].amount + TotalAt(seq, I \ {i})

\* two ledgers are the same sequence: same length, same six fields record by record
SameLedger(a, b) ==
  /\ Len(a) = Len(b)
  /\ \A i \in 1..Len(a) : \A k \in Fields : a[i][k] = b[i][k]

\* the expense file reads as the ledger exps (an absent file as the empty ledger)
FileHoldsLedger(file, exps) ==
  IF file.exists
  THEN /\ Len(file.data) = Len(exps)
       /\ \A i \in 1..Len(exps) :
            /\ DOMAIN file.data[i] = Fields
            /\ \A k \in Fields : file.data[i][k] = exps[i][k]
  ELSE exps = <<>>

\* the budget file reads as the budget map buds (an absent file as the empty map)
FileHoldsBudgets(file, buds) ==
  IF file.exists
  THEN /\ DOMAIN file.data = DOMAIN buds
       /\ \A c \in DOMAIN buds : file.data[c] = buds[c]
  ELSE DOMAIN buds = {}

Added == last.op = "add" \/ (last.op = "recurring" /\ ~error)

\* ----------------------------------------------------------------- claims

\* C1: after every operation of a session (add, delete, set-budget, and the
\* ones that change nothing) the expense file holds exactly the in-memory
\* ledger, record by record in the same order, and the budget file holds
\* exactly the in-memory budget map; a mutation has written its file.
C1_DiskReflectsMemory ==
  /\ FileHoldsLedger(expFile, expenses)
  /\ FileHoldsBudgets(budFile, budgets)
  /\ (Added \/ last.op = "delete") => expFile.exists
  /\ last.op = "set_budget" => budFile.exists

\* a delete that removed something, with a budget set and records left
C1_Witness ==
  /\ last.op = "delete"
  /\ Len(expenses) < Len(last.pre)
  /\ Len(expenses) >= 1
  /\ DOMAIN budgets # {}

\* C2: a session started right after an add loads a ledger identical to the
\* in-memory ledger as the add left it: same length, same order, the six
\* fields equal record by record.
C2_AddThenReload ==
  (last.op = "load" /\ last.args.after = "add") => SameLedger(expenses, last.pre)

\* a reload after an add, of a ledger with a record that has none of the defaults
C2_Witness ==
  /\ last.op = "load"
  /\ last.args.after = "add"
  /\ Len(expenses) >= 2
  /\ \E i \in 1..Len(expenses) :
       expenses[i].currency = "USD" /\ expenses[i].payment_method = "UPI"

Matches(e, t) ==
  /\ e.date = t.date
  /\ e.category = t.category
  /\ e.amount = t.amount
  /\ e.description = t.description

\* after delete(t): the ledger is the former ledger without the records whose
\* four fields equal t, the others in their order; it is persisted; no error
DeleteRemovesAllMatches ==
  last.op = "delete" =>
    LET pre == last.pre
        kept == {i \in 1..Len(pre) : ~Matches(pre[i], last.args)}
    IN /\ expenses = AtIndices(pre, kept)
       /\ \A i \in 1..Len(expenses) : ~Matches(expenses[i], last.args)
       /\ (kept = 1..Len(pre)) => expenses = pre
       /\ FileHoldsLedger(expFile, expenses)
       /\ expFile.exists
       /\ ~error

\* the same delete once more changes neither the ledger nor the file's content
DeleteTwice ==
  (last.op = "delete" /\ last'.op = "delete" /\ last'.args = last.args)
    => (expenses' = expenses /\ expFile' = expFile /\ ~error')

\* C3: delete removes every record whose four fields all equal the arguments,
\* keeps the others in their relative order and persists the result; with no
\* matching record the ledger is unchanged and there is no error, and the same
\* delete applied twice leaves the ledger of applying it once.
C3_Delete == []DeleteRemovesAllMatches /\ [][DeleteTwice]_vars

\* a delete that removed two duplicates and kept the third record
C3_Witness ==
  /\ last.op = "delete"
  /\ Len(last.pre) = 3
  /\ Len(expenses) = 1
  /\ last.pre[1] = last.pre[3]

\* the current-month spend of the claim: category X, today's month of today's year
SpentThisMonth(exps, category, now) ==
  TotalAt(exps, {i \in 1..Len(exps) :
                   /\ exps[i].category = category
                   /\ strptime(exps[i].date).year = now.year
                   /\ strptime(exps[i].date).month = now.month})

\* C4: on an add of a record whose category has a ceiling, the budget alert
\* fires if and only if the category's spend in the current calendar month
\* (today's month of today's year) is strictly above the ceiling.
C4_AlertIffOverCeiling ==
  (Added /\ expenses[Len(expenses)].category \in DOMAIN budgets) =>
    LET category == expenses[Len(expenses)].category IN
    alert <=> (SpentThisMonth(expenses, category, today) > budgets[category])

\* what the code computes: the category's spend in today's month of any year
SpentThisMonthOfAnyYear(exps, category, now) ==
  TotalAt(exps, {i \in 1..Len(exps) :
                   /\ exps[i].category = category
                   /\ strptime(exps[i].date).month = now.month})

\* the alert fires iff the spend in today's month number, of whatever year, is
\* strictly above the ceiling
AlertIffOverCeilingAnyYear ==
  (Added /\ expenses[Len(expenses)].category \in DOMAIN budgets) =>
    LET category == expenses[Len(expenses)].category IN
    alert <=> (SpentThisMonthOfAnyYear(expenses, category, today) > budgets[category])

\* the target of the claim: this month when the day is not before today's day,
\* else the following month, the year incremented when today is in December
ClaimedTarget(now, day) ==
  IF day >= now.day THEN Date(now.year, now.month, day)
  ELSE IF now.month = 12 THEN Date(now.year + 1, 1, day)
  ELSE Date(now.year, now.month + 1, day)

\* the day exists in the month of the claimed target
DayExists(now, day) ==
  LET t == ClaimedTarget(now, day) IN
  /\ day \in 1..31
  /\ t.month \in {4, 6, 9, 11} => day <= 30
  /\ t.month = 2 => day <= 29
  /\ (t.month = 2 /\ ~IsLeap(t.year)) => day <= 28

\* C5: addRecurring with a day that exists in its target month adds exactly one
\* record, the last of the ledger, dated that day of the current month and year
\* when the day is today's day or later, and of the following month otherwise,
\* the year incremented exactly when today is in December.
C5_RecurringDate ==
  (last.op = "recurring" /\ DayExists(today, last.args.day_of_month)) =>
    LET new == expenses[Len(expenses)] IN
    /\ ~error
    /\ Len(expenses) = Len(last.pre) + 1
    /\ SubSeq(expenses, 1, Len(last.pre)) = last.pre
    /\ Len(new.date) = 10
    /\ strptime(new.date) = ClaimedTarget(today, last.args.day_of_month)
    /\ new.amount = last.args.amount
    /\ new.category = last.args.category
    /\ new.description = last.args.description

\* on the 31st of December, day 30 asked: the 30th of January of the next year
C5_Witness ==
  /\ last.op = "recurring"
  /\ ~error
  /\ today = Date(2023, 12, 31)
  /\ last.args.day_of_month = 30
  /\ strptime(expenses[Len(expenses)].date) = Date(2024, 1, 30)
  /\ Len(expenses) = 2

\* a step of addRecurring with a day that does not exist in the target month
\* ends in an error and changes neither the ledger, nor the files, nor the budgets
RecurringRejected ==
  (last'.op = "recurring" /\ ~DayExists(today, last'.args.day_of_month)) =>
    /\ error'
    /\ expenses' = expenses
    /\ expFile' = expFile
    /\ budgets' = budgets
    /\ budFile' = budFile

\* C6: addRecurring with a day that does not exist in the computed target month
\* (31 in a 30-day month, 30 in February, a value below 1) ends in an error
\* reported to the caller; no record is appended and nothing is saved.
C6_RecurringInvalidDay == [][RecurringRejected]_vars

\* on the 31st of January, day 30 asked: February has no 30th; the ledger of the
\* former session is still the ledger
C6_Witness ==
  /\ last.op = "recurring"
  /\ error
  /\ today = Date(2023, 1, 31)
  /\ last.args.day_of_month = 30
  /\ expenses = FormerLedger

CategoriesOf(exps) == {exps[i].category : i \in 1..Len(exps)}

\* C7: summarize(year, month), for every ledger and every pair of arguments
\* (absent ones included), is a map whose keys are exactly the categories of the
\* records of filter(year, month) and whose value at a category is the sum of the
\* amounts of exactly those records of that category, each counted once.
C7_SummaryTotals ==
  last.op = "summary" =>
    LET passing == filter_expenses(expenses, last.args.year, last.args.month, None, None)
    IN /\ DOMAIN last.result = CategoriesOf(passing)
       /\ \A c \in CategoriesOf(passing) :
            last.result[c] =
              TotalAt(passing, {i \in 1..Len(passing) : passing[i].category = c})

\* records Food 10, Food 20, Rent 5 of December 2024 summarized for (2024, 12):
\* Food 30, Rent 5
C7_Witness ==
  /\ last.op = "summary"
  /\ last.args = [year |-> Some(2024), month |-> Some(12)]
  /\ Len(expenses) = 3
  /\ expenses[1].amount = 10 /\ expenses[1].category = Food
  /\ expenses[2].amount = 20 /\ expenses[2].category = Food
  /\ expenses[3].amount = 5 /\ expenses[3].category = Rent
  /\ last.result[Food] = 30
  /\ last.result[Rent] = 5
  /\ DOMAIN last.result = {Food, Rent}

\* the pairs of an upper-case letter and its lower-case letter
CasePairs == {<<"D", "d">>, <<"F", "f">>, <<"O", "o">>, <<"R", "r">>}

SameLetter(a, b) == a = b \/ <<a, b>> \in CasePairs \/ <<b, a>> \in CasePairs

\* keyword occurs in s at some offset, letter by letter ignoring case
OccursIgnoringCase(s, keyword) ==
  \E offset \in 0..(Len(s) - Len(keyword)) :
    \A j \in 1..Len(keyword) : SameLetter(s[offset + j], keyword[j])

\* C8: search(keyword) returns, in ledger order, exactly the records whose
\* description or category contains the keyword ignoring letter case; the empty
\* keyword returns the whole ledger, and "foo" finds category "Food".
C8_Search ==
  last.op = "search" =>
    LET keyword == last.args.keyword
        found == {i \in 1..Len(expenses) :
                    \/ OccursIgnoringCase(expenses[i].description, keyword)
                    \/ OccursIgnoringCase(expenses[i].category, keyword)}
    IN /\ last.result = AtIndices(expenses, found)
       /\ keyword = <<>> => last.result = expenses
       /\ keyword = <<"f", "o", "o">> =>
            \A i \in 1..Len(expenses) :
              expenses[i].category = Food =>
                \E k \in 1..Len(last.result) : last.result[k] = expenses[i]

\* "FOO" asked of a ledger with a Food record, a record described "FOo" and a
\* record that has neither: the first two are found, in their order
C8_Witness ==
  /\ last.op = "search"
  /\ last.args.keyword = <<"F", "O", "O">>
  /\ Len(expenses) = 3
  /\ expenses[1].category = Rent /\ expenses[1].description = <<"F", "O", "o">>
  /\ expenses[2].category = Rent /\ expenses[2].description = <<"a">>
  /\ expenses[3].category = Food /\ expenses[3].description = <<"b">>
  /\ last.result = <<expenses[1], expenses[3]>>

\* a is the day b or an earlier day
NotAfter(a, b) == a = b \/ Before(a, b)

\* C9: filterByDateRange(start, end) returns, in ledger order, exactly the
\* records dated from start to end, both days included; (a, a) returns exactly
\* the records dated a, and a range with start after end returns no record.
C9_DateRange ==
  last.op = "range" =>
    LET start == strptime(last.args.start_date)
        end == strptime(last.args.end_date)
        within == {i \in 1..Len(expenses) :
                     /\ NotAfter(start, strptime(expenses[i].date))
                     /\ NotAfter(strptime(expenses[i].date), end)}
    IN /\ last.result = AtIndices(expenses, within)
       /\ start = end =>
            last.result = AtIndices(expenses, {i \in 1..Len(expenses) :
                                                 expenses[i].date = last.args.start_date})
       /\ Before(end, start) => last.result = <<>>

\* 2024-01-05 to 2024-12-10 asked of records dated 2023-12-10, 2024-12-10 and
\* 2024-01-05: the two at the bounds are returned
C9_Witness ==
  /\ last.op = "range"
  /\ last.args.start_date = strftime(Date(2024, 1, 5))
  /\ last.args.end_date = strftime(Date(2024, 12, 10))
  /\ Len(expenses) = 3
  /\ expenses[1].date = strftime(Date(2023, 12, 10))
  /\ expenses[2].date = strftime(Date(2024, 12, 10))
  /\ expenses[3].date = strftime(Date(2024, 1, 5))
  /\ last.result = <<expenses[2], expenses[3]>>

\* the records of exps that satisfy each predicate whose argument is in `given`
Satisfying(exps, args, given) ==
  {i \in 1..Len(exps) :
     /\ "year" \in given => strptime(exps[i].date).year = Value(args.year)
     /\ "month" \in given => strptime(exps[i].date).month = Value(args.month)
     /\ "category" \in given => exps[i].category = Value(args.category)
     /\ "payment_method" \in given => exps[i].payment_method = Value(args.payment_method)}

\* C10: filter(year, month, category, paymentMethod) returns, in ledger order,
\* exactly the records that satisfy every provided predicate; an argument that
\* is not provided restricts nothing.
C10_FilterProvided ==
  last.op = "filter" =>
    LET provided == {k \in DOMAIN last.args : last.args[k] # None}
    IN last.result = AtIndices(expenses, Satisfying(expenses, last.args, provided))

\* what the code computes: a predicate applies when its argument is given and is
\* neither 0 nor the empty string
FilterTruthy ==
  last.op = "filter" =>
    LET truthy == {k \in DOMAIN last.args :
                     /\ last.args[k] # None
                     /\ k \in {"year", "month"} => Value(last.args[k]) # 0
                     /\ k = "category" => Value(last.args[k]) # <<>>
                     /\ k = "payment_method" => Value(last.args[k]) # ""}
    IN last.result = AtIndices(expenses, Satisfying(expenses, last.args, truthy))

\* C11: convertCurrency(amount, from, to) with from equal to to returns exactly
\* the input amount and does not call the rate service, for every amount and
\* currency, whatever the service would have answered.
C11_ConvertSameCurrency ==
  (last.op = "convert" /\ last.args.from_currency = last.args.to_currency) =>
    /\ last.result.result = Some(last.args.amount)
    /\ ~last.result.called
    /\ ~last.result.reported

\* convertCurrency(100, "USD", "USD") while the service is down: 100
C11_Witness ==
  /\ last.op = "convert"
  /\ last.args.amount = 100
  /\ last.args.from_currency = "USD"
  /\ last.args.to_currency = "USD"
  /\ last.args.response = NetworkError
  /\ last.result.result = Some(100)

\* the lookup of the rate of currency `to` fails on this answer
LookupFails(response, to) ==
  \/ response = NetworkError
  \/ response = NotJson
  \/ response.kind = "json" /\ "rates" \notin DOMAIN response.body
  \/ response.kind = "json" /\ "rates" \in DOMAIN response.body
       /\ to \notin DOMAIN response.body.rates

\* a failed lookup gives the failure result None, reported, and no amount
ConvertFailureReported ==
  (/\ last.op = "convert"
   /\ last.args.from_currency # last.args.to_currency
   /\ LookupFails(last.args.response, last.args.to_currency)) =>
    /\ last.result.result = None
    /\ last.result.reported
    /\ last.result.result # Some(0)
    /\ last.result.result # Some(last.args.amount)
    /\ \A rate \in 0..83 : last.result.result # Some(last.args.amount * rate)

\* a conversion leaves the ledger, the budgets and both files as they were
ConvertChangesNothing ==
  last'.op = "convert" =>
    /\ expenses' = expenses
    /\ budgets' = budgets
    /\ expFile' = expFile
    /\ budFile' = budFile

\* C12: when from differs from to and the rate lookup fails (network error, body
\* that is no JSON, body without rates, rates without the target currency)
\* convertCurrency returns the failure result, reported, never zero, the input
\* amount or an amount at some default rate; ledger and budgets are unchanged.
C12_ConvertFailure == []ConvertFailureReported /\ [][ConvertChangesNothing]_vars

\* USD to INR asked of rates that list only USD and EUR, on a saved ledger
C12_Witness ==
  /\ last.op = "convert"
  /\ last.args.from_currency = "USD"
  /\ last.args.to_currency = "INR"
  /\ last.args.amount = 100
  /\ last.args.response = Json([rates |-> [c \in {"USD", "EUR"} |-> 2]])
  /\ last.result.result = None
  /\ last.result.reported
  /\ expenses = FormerLedger
  /\ DOMAIN budgets = {Rent}

\* C13: whenever the budget check runs for an add, the sum it compares with the
\* ceiling is what the earlier records contribute plus the amount of the record
\* just added, whether the record was added with today's date, with a given
\* date or by addRecurring.
C13_SumIncludesRecord ==
  (Added /\ spent # None) =>
    LET new == expenses[Len(expenses)] IN
    Value(spent) = SpentThisMonthOfAnyYear(last.pre, new.category, today) + new.amount

\* C13 as amended: the sum includes the amount of the record just added exactly
\* when the month number of the record's date is today's month number; a record
\* added without a date always is included.
C13_SumIncludesRecordOfThisMonth ==
  (Added /\ spent # None) =>
    LET new == expenses[Len(expenses)]
        counted == strptime(new.date).month = today.month
    IN /\ Value(spent) = SpentThisMonthOfAnyYear(last.pre, new.category, today)
                           + (IF counted THEN new.amount ELSE 0)
       /\ (last.op = "add" /\ last.args.date = None) => counted

\* a recurring expense dated next month, checked against a ceiling: the sum is
\* what the earlier record of this month spent
C13_Witness ==
  /\ last.op = "recurring"
  /\ ~error
  /\ spent = Some(MaxAmount)
  /\ Len(last.pre) = 1
  /\ strptime(expenses[Len(expenses)].date).month # today.month

\* ---------------------------------------------------------------- C14
\* C14: add appends the record, then persists the ledger, then evaluates the
\* budget rule, and the notification neither blocks nor undoes the add: after
\* the append and before the save the file still holds the former ledger and
\* no check has run; after the save and before the check the file holds the
\* new ledger; in every state where the notification is being shown the record
\* is the last element of the ledger in memory and of the persisted file; and
\* when the notification is dismissed both are left as they were.
NewRecordIsLast ==
  /\ Len(expenses) = Len(last.pre) + 1
  /\ SubSeq(expenses, 1, Len(last.pre)) = last.pre

NotChecked == ~alert /\ spent = None

AddOrder ==
  /\ pc = "add_appended" =>
       NewRecordIsLast /\ FileHoldsLedger(expFile, last.pre) /\ NotChecked
  /\ pc = "add_writing" => NewRecordIsLast /\ Torn(expFile) /\ NotChecked
  /\ pc = "add_saved" =>
       NewRecordIsLast /\ expFile = save_expenses(expenses) /\ NotChecked
  /\ pc = "add_alerting" =>
       /\ alert
       /\ last.op = "add"
       /\ NewRecordIsLast
       /\ expFile.exists /\ ~Torn(expFile)
       /\ Len(expFile.data) = Len(expenses)
       /\ expFile.data[Len(expFile.data)] = to_dict(expenses[Len(expenses)])
       /\ FileHoldsLedger(expFile, expenses)
  /\ (pc = "idle" /\ last.op = "add") =>
       NewRecordIsLast /\ FileHoldsLedger(expFile, expenses)

AlertKeepsRecord ==
  (pc = "add_alerting" /\ pc' = "idle") =>
    /\ expenses' = expenses
    /\ expFile' = expFile
    /\ alert'

C14_AppendPersistCheck == []AddOrder /\ [][AlertKeepsRecord]_vars

C14_Witness ==
  /\ pc = "idle"
  /\ last.op = "add"
  /\ alert
  /\ Len(expenses) = 2
  /\ expFile.data[2] = to_dict(expenses[2])

\* ---------------------------------------------------------------- C15
\* C15: saving the ledger is crash-safe: after a crash at any point of a save
\* the ledger file holds the complete former ledger or the complete new one,
\* never an empty, truncated or partly written one, and the load that follows
\* succeeds.
C15_CrashSafeSave ==
  /\ pc = "crashed" =>
       /\ ~Torn(expFile)
       /\ FileHoldsLedger(expFile, last.pre) \/ FileHoldsLedger(expFile, last.new)
  /\ last.op # "load_failed"

\* a crash between open(filename, "w") and the end of json.dump leaves a file
\* that is neither ledger, and the next start fails on it
TornByCrash ==
  /\ pc = "crashed"
  /\ last.op = "load_failed"
  /\ error
  /\ Torn(expFile)
  /\ Len(last.pre) = 2
  /\ Len(expFile.data) < 2

====
